---- MODULE Spec2Model ----
(***************************************************************************)
(* cim::sorted_vector <T> (src/sorted_vector.h), instantiated with an      *)
(* integer element type, built with CIM_SORTED_VECTOR_AUTOREPAIR defined   *)
(* and CIM_SORTED_VECTOR_IGNORE_POSSIBLY_CORRUPTED and                     *)
(* CIM_SORTED_VECTOR_USE_MEMMOVE undefined (the header's defaults).        *)
(*                                                                         *)
(* Positions are 0-based size_t values as in the source; size_t is         *)
(* modelled with SizeBits bits, so (size_t)-1 is NPOS and arithmetic wraps.*)
(* A read or write outside the vector is undefined behaviour: the search   *)
(* operators then return UB, the mutating operators set the field ub.      *)
(***************************************************************************)
EXTENDS Integers, Sequences, FiniteSets, TLC

MaxLen == 3
MaxVal == 2
MaxMerge == 2
MaxSearchLen == 6
MaxRangeLen == 2
MaxRoundLen == 3
SizeBits == 6

Values == 0..MaxVal
SizeMod == 2^SizeBits
NPOS == SizeMod - 1
UB == SizeMod

VARIABLES storage, last_modified, is_corrupted, flag_suspend_autorepair,
          ub, op, prev, ret

vars == <<storage, last_modified, is_corrupted, flag_suspend_autorepair,
          ub, op, prev, ret>>

(***************************************************************************)
(* size_t arithmetic and std::vector primitives                            *)
(***************************************************************************)
Inc(x) == (x + 1) % SizeMod

Dec(x) == (x + SizeMod - 1) % SizeMod

Mid(f, l) == ((f + l) % SizeMod) \div 2

InRange(s, i) == i < Len(s)

At(s, i) == s[i + 1]

SetAt(s, i, x) == [s EXCEPT ![i + 1] = x]

EraseAt(s, i) == SubSeq(s, 1, i) \o SubSeq(s, i + 2, Len(s))

InsertAt(s, i, x) == SubSeq(s, 1, i) \o <<x>> \o SubSeq(s, i + 1, Len(s))

Positions(s) == 0..(Len(s) - 1)

IsSorted(s) == \A i \in 1..(Len(s) - 1) : s[i] <= s[i + 1]

RECURSIVE std_sort(_)
std_sort(s) ==
  IF s = <<>> THEN <<>>
  ELSE LET r == std_sort(Tail(s))
           k == Cardinality({i \in 1..Len(r) : r[i] <= Head(s)})
       IN InsertAt(r, k, Head(s))

(***************************************************************************)
(* The object: the four data members, and ub = "this call has executed     *)
(* undefined behaviour".                                                   *)
(***************************************************************************)
Obj(s, lm, c, f) ==
  [storage |-> s, last_modified |-> lm, is_corrupted |-> c,
   flag_suspend_autorepair |-> f, ub |-> FALSE]

Cur == Obj(storage, last_modified, is_corrupted, flag_suspend_autorepair)

Undefined(st) == [st EXCEPT !.ub = TRUE]

(***************************************************************************)
(* find_linear, find_linear_first: while (start_pos != end_pos)            *)
(***************************************************************************)
RECURSIVE linear_loop(_, _, _, _)
linear_loop(s, t, start_pos, end_pos) ==
  IF start_pos = end_pos THEN NPOS
  ELSE IF ~InRange(s, start_pos) THEN UB
  ELSE IF At(s, start_pos) = t THEN start_pos
  ELSE linear_loop(s, t, Inc(start_pos), end_pos)

find_linear(st, t, start_pos, end_pos) ==
  LET s == st.storage
      e == IF end_pos = NPOS THEN Dec(Len(s)) ELSE end_pos
  IN IF Len(s) = 0 THEN NPOS
     ELSE IF start_pos > e THEN NPOS
     ELSE linear_loop(s, t, start_pos, e)

(***************************************************************************)
(* find: binary search probing the middle and both bounds                  *)
(***************************************************************************)
RECURSIVE find_loop(_, _, _, _, _)
find_loop(s, t, f, l, m) ==
  IF ~(f <= l) THEN NPOS
  ELSE IF ~InRange(s, m) THEN UB
  ELSE IF At(s, m) = t THEN m
  ELSE IF ~InRange(s, f) THEN UB
  ELSE IF At(s, f) = t THEN f
  ELSE IF ~InRange(s, l) THEN UB
  ELSE IF At(s, l) = t THEN l
  ELSE IF At(s, m) < t
       THEN find_loop(s, t, Inc(m), l, Mid(l, Inc(m)))
       ELSE IF m = 0 THEN NPOS
            ELSE find_loop(s, t, f, Dec(m), Mid(Dec(m), f))

find(st, t, start_pos, end_pos) ==
  LET s == st.storage
      l == IF end_pos = NPOS THEN Dec(Len(s)) ELSE end_pos
  IN IF Len(s) = 0 THEN NPOS
     ELSE IF ~st.is_corrupted
          THEN find_loop(s, t, start_pos, l, Mid(start_pos, l))
          ELSE find_linear(st, t, start_pos, end_pos)

(***************************************************************************)
(* find_floor                                                              *)
(***************************************************************************)
RECURSIVE floor_walk(_, _, _, _)
floor_walk(s, t, m, f) ==
  IF ~(m > f) THEN f
  ELSE IF ~InRange(s, Dec(m)) THEN UB
  ELSE IF ~(At(s, Dec(m)) = t) THEN Inc(Dec(m))
  ELSE floor_walk(s, t, Dec(m), f)

floor_final(s, t, m) ==
  IF ~InRange(s, m) THEN UB
  ELSE IF At(s, m) = t THEN m
  ELSE IF At(s, m) < t THEN m
  ELSE Dec(m)

RECURSIVE floor_loop(_, _, _, _, _)
floor_loop(s, t, f, l, m) ==
  IF f < l
  THEN IF ~InRange(s, m) THEN UB
       ELSE IF At(s, m) = t THEN floor_walk(s, t, m, f)
       ELSE IF At(s, m) < t
            THEN floor_loop(s, t, Inc(m), l, Mid(l, Inc(m)))
            ELSE floor_loop(s, t, f, Dec(m), Mid(Dec(m), f))
  ELSE floor_final(s, t, m)

\* find_floor with the test of the upper bound written <= instead of <
find_floor_le(st, t, start_pos, end_pos) ==
  LET s == st.storage
      e == IF end_pos = NPOS THEN Dec(Len(s)) ELSE end_pos
  IN IF Len(s) = 0 THEN NPOS
     ELSE IF ~st.is_corrupted
          THEN IF ~InRange(s, start_pos) THEN UB
               ELSE IF At(s, start_pos) > t THEN NPOS
               ELSE IF ~InRange(s, e) THEN UB
               ELSE IF At(s, e) <= t THEN e
               ELSE floor_loop(s, t, start_pos, e, Mid(start_pos, e))
          ELSE NPOS

find_floor(st, t, start_pos, end_pos) ==
  LET s == st.storage
      e == IF end_pos = NPOS THEN Dec(Len(s)) ELSE end_pos
  IN IF Len(s) = 0 THEN NPOS
     ELSE IF ~st.is_corrupted
          THEN IF ~InRange(s, start_pos) THEN UB
               ELSE IF At(s, start_pos) > t THEN NPOS
               ELSE IF ~InRange(s, e) THEN UB
               ELSE IF At(s, e) < t THEN e
               ELSE floor_loop(s, t, start_pos, e, Mid(start_pos, e))
          ELSE NPOS

(***************************************************************************)
(* find_ceil                                                               *)
(***************************************************************************)
RECURSIVE ceil_walk(_, _, _, _)
ceil_walk(s, t, m, l) ==
  IF ~(m < l) THEN l
  ELSE IF ~InRange(s, Inc(m)) THEN UB
  ELSE IF ~(At(s, Inc(m)) = t) THEN Dec(Inc(m))
  ELSE ceil_walk(s, t, Inc(m), l)

\* ceil_final returning m where the source returns m + 1
ceil_final_no_step(s, t, m) ==
  IF ~InRange(s, m) THEN UB
  ELSE IF At(s, m) = t THEN m
  ELSE IF At(s, m) > t THEN m
  ELSE m

ceil_final(s, t, m) ==
  IF ~InRange(s, m) THEN UB
  ELSE IF At(s, m) = t THEN m
  ELSE IF At(s, m) > t THEN m
  ELSE Inc(m)

RECURSIVE ceil_loop(_, _, _, _, _)
ceil_loop(s, t, f, l, m) ==
  IF f < l
  THEN IF ~InRange(s, m) THEN UB
       ELSE IF At(s, m) = t THEN ceil_walk(s, t, m, l)
       ELSE IF At(s, m) < t
            THEN ceil_loop(s, t, Inc(m), l, Mid(Inc(m), l))
            ELSE ceil_loop(s, t, f, Dec(m), Mid(f, Dec(m)))
  ELSE ceil_final(s, t, m)

\* find_ceil with the test of the first element written >= instead of >
find_ceil_ge(st, t, start_pos, end_pos) ==
  LET s == st.storage
      e == IF end_pos = NPOS THEN Dec(Len(s)) ELSE end_pos
  IN IF Len(s) = 0 THEN NPOS
     ELSE IF ~st.is_corrupted
          THEN IF At(s, 0) >= t THEN 0
               ELSE IF ~InRange(s, e) THEN UB
               ELSE IF At(s, e) < t THEN NPOS
               ELSE ceil_loop(s, t, start_pos, e, Mid(start_pos, e))
          ELSE NPOS

find_ceil(st, t, start_pos, end_pos) ==
  LET s == st.storage
      e == IF end_pos = NPOS THEN Dec(Len(s)) ELSE end_pos
  IN IF Len(s) = 0 THEN NPOS
     ELSE IF ~st.is_corrupted
          THEN IF At(s, 0) > t THEN 0
               ELSE IF ~InRange(s, e) THEN UB
               ELSE IF At(s, e) < t THEN NPOS
               ELSE ceil_loop(s, t, start_pos, e, Mid(start_pos, e))
          ELSE NPOS

(***************************************************************************)
(* find_linear_first, find_linear_last                                     *)
(***************************************************************************)
find_linear_first(st, t, start_pos, end_pos) ==
  LET s == st.storage
      e == IF end_pos = NPOS THEN Dec(Len(s)) ELSE end_pos
  IN IF Len(s) = 0 THEN NPOS
     ELSE IF start_pos > e THEN NPOS
     ELSE linear_loop(s, t, start_pos, e)

\* while (start_pos != end_pos) if (_storage[end_pos--] == t) ...
RECURSIVE linear_last_loop(_, _, _, _)
linear_last_loop(s, t, start_pos, end_pos) ==
  IF start_pos = end_pos THEN NPOS
  ELSE IF ~InRange(s, end_pos) THEN UB
  ELSE IF At(s, end_pos) = t THEN end_pos
  ELSE linear_last_loop(s, t, start_pos, Dec(end_pos))

find_linear_last(st, t, start_pos, end_pos) ==
  LET s == st.storage
      e == IF end_pos = NPOS THEN Dec(Len(s)) ELSE end_pos
  IN IF Len(s) = 0 THEN NPOS
     ELSE IF start_pos > e THEN NPOS
     ELSE linear_last_loop(s, t, start_pos, e)

(***************************************************************************)
(* find_first, find_last: the walk from the position find returned.        *)
(* prev_pos is not initialised: returning it before the first assignment   *)
(* is UB.                                                                  *)
(***************************************************************************)
RECURSIVE first_walk(_, _, _, _, _)
first_walk(s, t, pos, start_pos, prev_pos) ==
  IF ~InRange(s, pos) THEN UB
  ELSE IF At(s, pos) = t /\ pos >= start_pos
       THEN first_walk(s, t, Dec(pos), start_pos, pos)
       ELSE prev_pos

find_first(st, t, start_pos, end_pos) ==
  LET s == st.storage
      e == IF end_pos = NPOS THEN Dec(Len(s)) ELSE end_pos
      pos == find(st, t, start_pos, e)
  IN IF Len(s) = 0 THEN NPOS
     ELSE IF ~st.is_corrupted
          THEN IF pos = UB THEN UB
               ELSE IF pos = NPOS THEN NPOS
               ELSE first_walk(s, t, pos, start_pos, UB)
          ELSE find_linear_first(st, t, start_pos, e)

RECURSIVE last_walk(_, _, _, _, _)
last_walk(s, t, pos, end_pos, prev_pos) ==
  IF ~InRange(s, pos) THEN UB
  ELSE IF At(s, pos) = t /\ pos <= end_pos
       THEN last_walk(s, t, Inc(pos), end_pos, pos)
       ELSE prev_pos

find_last(st, t, start_pos, end_pos) ==
  LET s == st.storage
      e == IF end_pos = NPOS THEN Dec(Len(s)) ELSE end_pos
      pos == find(st, t, start_pos, e)
  IN IF ~st.is_corrupted
     THEN IF pos = UB THEN UB
          ELSE IF pos = NPOS THEN NPOS
          ELSE last_walk(s, t, pos, e, UB)
     ELSE find_linear_last(st, t, 0, NPOS)

(***************************************************************************)
(* find_next, find_prev                                                    *)
(***************************************************************************)
find_next(st, current_pos, end_pos) ==
  LET s == st.storage
      e == IF end_pos = NPOS THEN Dec(Len(s)) ELSE end_pos
  IN IF current_pos = e THEN NPOS
     ELSE IF ~st.is_corrupted
          THEN IF ~InRange(s, current_pos) THEN UB
               ELSE IF ~InRange(s, Inc(current_pos)) THEN UB
               ELSE IF At(s, current_pos) = At(s, Inc(current_pos))
                    THEN Inc(current_pos)
                    ELSE NPOS
          ELSE IF ~InRange(s, current_pos) THEN UB
               ELSE find_first(st, At(s, current_pos), Inc(current_pos), e)

find_prev(st, current_pos, start_pos) ==
  LET s == st.storage
  IN IF current_pos <= start_pos THEN NPOS
     ELSE IF ~st.is_corrupted
          THEN IF ~InRange(s, current_pos) THEN UB
               ELSE IF ~InRange(s, Dec(current_pos)) THEN UB
               ELSE IF At(s, current_pos) = At(s, Dec(current_pos))
                    THEN Dec(current_pos)
                    ELSE NPOS
          ELSE IF ~InRange(s, current_pos) THEN UB
               ELSE find_last(st, At(s, current_pos), start_pos,
                              Dec(current_pos))

(***************************************************************************)
(* sort, single_shift_left, single_shift_right, repair                     *)
(***************************************************************************)
sort(st) ==
  [st EXCEPT !.storage = std_sort(st.storage), !.is_corrupted = FALSE]

single_shift_left(st, start_pos, end_pos) ==
  LET s == st.storage
      e == IF end_pos = NPOS THEN Dec(Len(s)) ELSE end_pos
  IN IF start_pos = end_pos THEN st
     ELSE IF ~InRange(s, start_pos) THEN Undefined(st)
     ELSE IF e > Len(s) - 1 THEN Undefined(st)
     ELSE [st EXCEPT !.storage =
             InsertAt(EraseAt(s, start_pos), e, At(s, start_pos))]

\* single_shift_right re-inserting one position too far to the right
single_shift_right_off_by_one(st, start_pos, end_pos) ==
  LET s == st.storage
      e == IF end_pos = NPOS THEN Dec(Len(s)) ELSE end_pos
  IN IF start_pos = end_pos THEN st
     ELSE IF ~InRange(s, e) THEN Undefined(st)
     ELSE IF start_pos > Len(s) - 1 THEN Undefined(st)
     ELSE [st EXCEPT !.storage =
             InsertAt(EraseAt(s, e), start_pos + 1, At(s, e))]

single_shift_right(st, start_pos, end_pos) ==
  LET s == st.storage
      e == IF end_pos = NPOS THEN Dec(Len(s)) ELSE end_pos
  IN IF start_pos = end_pos THEN st
     ELSE IF ~InRange(s, e) THEN Undefined(st)
     ELSE IF start_pos > Len(s) - 1 THEN Undefined(st)
     ELSE [st EXCEPT !.storage =
             InsertAt(EraseAt(s, e), start_pos, At(s, e))]

\* _storage[pos] = t
assign(st, pos, t) ==
  IF st.ub THEN st
  ELSE IF ~InRange(st.storage, pos) THEN Undefined(st)
  ELSE [st EXCEPT !.storage = SetAt(st.storage, pos, t)]

repair_left(st) ==
  LET s == st.storage
      lm == st.last_modified
      pos_ceil == find_ceil(st, At(s, lm), 0, Dec(lm))
  IN IF pos_ceil = UB THEN Undefined(st)
     ELSE assign(single_shift_right(st, pos_ceil, lm), pos_ceil, At(s, lm))

repair_right(st) ==
  LET s == st.storage
      lm == st.last_modified
      pos_floor == find_floor(st, At(s, lm), Inc(lm), Dec(Len(s)))
  IN IF pos_floor = UB THEN Undefined(st)
     ELSE assign(single_shift_left(st, lm, pos_floor), pos_floor, At(s, lm))

repair_single(st) ==
  LET s == st.storage
      lm == st.last_modified
  IN IF lm > 0
     THEN IF ~InRange(s, lm) THEN Undefined(st)
          ELSE IF At(s, lm) < At(s, lm - 1) THEN repair_left(st)
          ELSE IF lm < Dec(Len(s))
               THEN IF ~InRange(s, lm + 1) THEN Undefined(st)
                    ELSE IF At(s, lm) > At(s, lm + 1) THEN repair_right(st)
                    ELSE st
               ELSE st
     ELSE IF lm < Dec(Len(s))
          THEN IF ~InRange(s, lm + 1) THEN Undefined(st)
               ELSE IF At(s, lm) > At(s, lm + 1) THEN repair_right(st)
               ELSE st
          ELSE st

\* repair whose single-element branch leaves _is_corrupted set
repair_keep_corrupted(st) ==
  IF st.is_corrupted
  THEN IF st.last_modified = NPOS
       THEN [sort(st) EXCEPT !.last_modified = NPOS]
       ELSE [repair_single(st) EXCEPT !.last_modified = NPOS]
  ELSE st

repair(st) ==
  IF st.is_corrupted
  THEN IF st.last_modified = NPOS
       THEN [sort(st) EXCEPT !.last_modified = NPOS]
       ELSE [repair_single([st EXCEPT !.is_corrupted = FALSE])
               EXCEPT !.last_modified = NPOS]
  ELSE st

\* if (_is_corrupted) { if (!_flag_suspend_autorepair) repair(); }
autorepair(st) ==
  IF st.is_corrupted /\ ~st.flag_suspend_autorepair THEN repair(st) ELSE st

(***************************************************************************)
(* The public mutating operations                                          *)
(***************************************************************************)
push_back(st, t) == [st EXCEPT !.storage = Append(st.storage, t)]

\* push that appends without looking for the place of t
push_append_only(st, t) ==
  LET st1 == autorepair(st)
  IN IF st1.ub THEN st1 ELSE push_back(st1, t)

\* push inserting after the ceiling also when the ceiling is greater than t
push_always_after(st, t) ==
  LET st1 == autorepair(st)
      s == st1.storage
      pos == find_ceil(st1, t, 0, NPOS)
  IN IF st1.ub THEN st1
     ELSE IF ~st1.is_corrupted
          THEN IF Len(s) = 0 THEN push_back(st1, t)
               ELSE IF pos = UB THEN Undefined(st1)
               ELSE IF pos = NPOS THEN push_back(st1, t)
               ELSE IF ~InRange(s, pos) THEN Undefined(st1)
               ELSE [st1 EXCEPT !.storage = InsertAt(s, pos + 1, t)]
          ELSE push_back(st1, t)

\* push that repairs a dirty object even while autorepair is suspended
push_repair_always(st, t) ==
  LET st1 == IF st.is_corrupted THEN repair(st) ELSE st
      s == st1.storage
      pos == find_ceil(st1, t, 0, NPOS)
  IN IF st1.ub THEN st1
     ELSE IF ~st1.is_corrupted
          THEN IF Len(s) = 0 THEN push_back(st1, t)
               ELSE IF pos = UB THEN Undefined(st1)
               ELSE IF pos = NPOS THEN push_back(st1, t)
               ELSE IF ~InRange(s, pos) THEN Undefined(st1)
               ELSE IF At(s, pos) = t
                    THEN [st1 EXCEPT !.storage = InsertAt(s, pos + 1, t)]
                    ELSE [st1 EXCEPT !.storage = InsertAt(s, pos, t)]
          ELSE push_back(st1, t)

push(st, t) ==
  LET st1 == autorepair(st)
      s == st1.storage
      pos == find_ceil(st1, t, 0, NPOS)
  IN IF st1.ub THEN st1
     ELSE IF ~st1.is_corrupted
          THEN IF Len(s) = 0 THEN push_back(st1, t)
               ELSE IF pos = UB THEN Undefined(st1)
               ELSE IF pos = NPOS THEN push_back(st1, t)
               ELSE IF ~InRange(s, pos) THEN Undefined(st1)
               ELSE IF At(s, pos) = t
                    THEN [st1 EXCEPT !.storage = InsertAt(s, pos + 1, t)]
                    ELSE [st1 EXCEPT !.storage = InsertAt(s, pos, t)]
          ELSE push_back(st1, t)

replace(st, t) ==
  LET st1 == autorepair(st)
      pos == find(st1, t, 0, NPOS)
  IN IF st1.ub THEN st1
     ELSE IF pos = UB THEN Undefined(st1)
     ELSE IF pos # NPOS THEN assign(st1, pos, t)
     ELSE push(st1, t)

\* erase that does not repair a dirty object first
erase_no_repair(st, pos) ==
  IF ~InRange(st.storage, pos) THEN Undefined(st)
  ELSE [st EXCEPT !.storage = EraseAt(st.storage, pos)]

erase(st, pos) ==
  LET st1 == autorepair(st)
  IN IF st1.ub THEN st1
     ELSE IF ~InRange(st1.storage, pos) THEN Undefined(st1)
     ELSE [st1 EXCEPT !.storage = EraseAt(st1.storage, pos)]

clear(st) ==
  [st EXCEPT !.storage = <<>>, !.last_modified = NPOS,
             !.is_corrupted = FALSE]

\* operator[] that always records pos as the single suspect
operator_index_always_pos(st, pos) ==
  LET st1 == IF ~st.flag_suspend_autorepair THEN repair(st) ELSE st
  IN IF st1.ub THEN st1
     ELSE [st1 EXCEPT !.last_modified = pos, !.is_corrupted = TRUE]

\* T &operator[](size_t pos): the bookkeeping done before the reference
\* to _storage[pos] is returned
operator_index(st, pos) ==
  LET st1 == IF ~st.flag_suspend_autorepair THEN repair(st) ELSE st
  IN IF st1.ub THEN st1
     ELSE [st1 EXCEPT
             !.last_modified = IF st1.is_corrupted THEN NPOS ELSE pos,
             !.is_corrupted = TRUE]

\* merge that leaves _last_modified as it was
merge_keep_last_modified(st, v) ==
  repair([st EXCEPT !.storage = st.storage \o v,
                    !.is_corrupted = TRUE])

merge(st, v) ==
  repair([st EXCEPT !.storage = st.storage \o v,
                    !.last_modified = NPOS,
                    !.is_corrupted = TRUE])

suspend_autorepair(st) ==
  [st EXCEPT !.flag_suspend_autorepair = TRUE,
             !.last_modified = NPOS,
             !.is_corrupted = TRUE]

\* resume_autorepair that clears the flag and does not repair
resume_autorepair_flag_only(st) ==
  [st EXCEPT !.flag_suspend_autorepair = FALSE]

resume_autorepair(st) ==
  repair([st EXCEPT !.flag_suspend_autorepair = FALSE])

(***************************************************************************)
(* State machine.  op is the last call and its arguments, prev the object  *)
(* before that call, ret the value the call returned (NPOS for void).      *)
(* ub records that the last call has executed undefined behaviour: the     *)
(* contents of the vector are then arbitrary, a search returns an          *)
(* arbitrary position, and nothing is modelled beyond that call.           *)
(***************************************************************************)
AllStorages == UNION {[1..n -> Values] : n \in 0..MaxLen}

MergeArgs == UNION {[1..n -> Values] : n \in 0..MaxMerge}

Results == (0..(MaxLen - 1)) \cup {NPOS}

Call(nm, p, v, sq) == [name |-> nm, pos |-> p, val |-> v, seq |-> sq]

Init ==
  /\ storage = <<>>
  /\ last_modified = NPOS
  /\ is_corrupted = FALSE
  /\ flag_suspend_autorepair = FALSE
  /\ ub = FALSE
  /\ op = Call("sorted_vector", NPOS, 0, <<>>)
  /\ prev = Obj(<<>>, NPOS, FALSE, FALSE)
  /\ ret = NPOS

\* A call of a non-const method whose effect on the object is r.
Mutate(c, r) ==
  /\ ~ub
  /\ Len(r.storage) <= MaxLen
  /\ op' = c
  /\ prev' = Cur
  /\ ret' = NPOS
  /\ last_modified' = r.last_modified
  /\ is_corrupted' = r.is_corrupted
  /\ flag_suspend_autorepair' = r.flag_suspend_autorepair
  /\ IF r.ub
     THEN /\ storage' \in AllStorages
          /\ ub' = TRUE
     ELSE /\ storage' = r.storage
          /\ ub' = ub

\* A call of a const search method that returns r.
Query(c, r) ==
  /\ ~ub
  /\ op' = c
  /\ prev' = Cur
  /\ UNCHANGED <<storage, last_modified, is_corrupted,
                 flag_suspend_autorepair>>
  /\ IF r = UB
     THEN /\ ret' \in Results
          /\ ub' = TRUE
     ELSE /\ ret' = r
          /\ ub' = ub

Index ==
  \E pos \in 0..(Len(storage) - 1), v \in Values :
    Mutate(Call("operator[]", pos, v, <<>>),
           assign(operator_index(Cur, pos), pos, v))

Push ==
  \E t \in Values : Mutate(Call("push", NPOS, t, <<>>), push(Cur, t))

Replace ==
  \E t \in Values : Mutate(Call("replace", NPOS, t, <<>>), replace(Cur, t))

Erase ==
  \E pos \in 0..(Len(storage) - 1) :
    Mutate(Call("erase", pos, 0, <<>>), erase(Cur, pos))

Merge ==
  \E v \in MergeArgs :
    /\ Len(storage) + Len(v) <= MaxLen
    /\ Mutate(Call("merge", NPOS, 0, v), merge(Cur, v))

Sort == Mutate(Call("sort", NPOS, 0, <<>>), sort(Cur))

Clear == Mutate(Call("clear", NPOS, 0, <<>>), clear(Cur))

Repair == Mutate(Call("repair", NPOS, 0, <<>>), repair(Cur))

Suspend ==
  Mutate(Call("suspend_autorepair", NPOS, 0, <<>>), suspend_autorepair(Cur))

Resume ==
  Mutate(Call("resume_autorepair", NPOS, 0, <<>>), resume_autorepair(Cur))

Find ==
  \E t \in Values : Query(Call("find", NPOS, t, <<>>), find(Cur, t, 0, NPOS))

FindFloor ==
  \E t \in Values :
    Query(Call("find_floor", NPOS, t, <<>>), find_floor(Cur, t, 0, NPOS))

FindCeil ==
  \E t \in Values :
    Query(Call("find_ceil", NPOS, t, <<>>), find_ceil(Cur, t, 0, NPOS))

Next ==
  \/ Index
  \/ Push
  \/ Replace
  \/ Erase
  \/ Merge
  \/ Sort
  \/ Clear
  \/ Repair
  \/ Suspend
  \/ Resume

Spec == Init /\ [][Next]_vars

(***************************************************************************)
(* The const search methods, called on an object in any of the three       *)
(* states: Sorted, Dirty(i) after one assignment through operator[](i),    *)
(* and Dirty(unknown) with auto-repair suspended and elements appended in  *)
(* any order.                                                              *)
(***************************************************************************)
SearchStorages == UNION {[1..n -> Values] : n \in 0..MaxSearchLen}

InitSearch ==
  /\ storage \in SearchStorages
  /\ \/ /\ IsSorted(storage)
        /\ is_corrupted = FALSE
        /\ last_modified = NPOS
        /\ flag_suspend_autorepair = FALSE
     \/ /\ is_corrupted = TRUE
        /\ last_modified \in Positions(storage)
        /\ IsSorted(EraseAt(storage, last_modified))
        /\ flag_suspend_autorepair = FALSE
     \/ /\ is_corrupted = TRUE
        /\ last_modified = NPOS
        /\ flag_suspend_autorepair = TRUE
  /\ ub = FALSE
  /\ op = Call("sorted_vector", NPOS, 0, <<>>)
  /\ prev = Cur
  /\ ret = NPOS

NextSearch ==
  \/ Find
  \/ FindFloor
  \/ FindCeil

SpecSearch == InitSearch /\ [][NextSearch]_vars

(***************************************************************************)
(* Reference notions used by the properties                                *)
(***************************************************************************)
DirtySingle == is_corrupted /\ last_modified # NPOS

\* the object is in state Sorted and its storage is indeed in order
SortedState == ~is_corrupted /\ IsSorted(storage)

Present(s, t) == \E i \in Positions(s) : At(s, i) = t

\* C1: whenever corrupted() is false the storage is non-decreasing, in
\* every state reached by the public operations without undefined behaviour.
C1_SortedWhenNotCorrupted ==
  ~ub => (~is_corrupted => IsSorted(storage))


\* C2: the calls of the claim only - push, replace, merge, repair - on an
\* object that starts empty and is never suspended.
NextBuild ==
  \/ Push
  \/ Replace
  \/ Merge
  \/ Repair

SpecBuild == Init /\ [][NextBuild]_vars

\* C2: from an empty, never suspended container, after any sequence of
\* push, replace and merge calls followed by repair(), the storage is
\* non-decreasing and corrupted() is false.
C2_SortedAfterRepair ==
  op.name = "repair" => IsSorted(storage) /\ ~is_corrupted

C2_Witness ==
  /\ op.name = "repair"
  /\ Len(storage) >= 3
  /\ At(storage, 0) < At(storage, Len(storage) - 1)
  /\ \E i \in Positions(storage) :
       i > 0 /\ At(storage, i) = At(storage, i - 1)
  /\ IsSorted(storage)
  /\ ~is_corrupted

\* C3: in every state find(t) over the full range returns a position
\* holding t whenever some element equals t, and not-found only when no
\* element equals t.
C3_FindAgreesWithScan ==
  op.name = "find" /\ ~ub =>
    /\ ret = NPOS <=> ~Present(storage, op.val)
    /\ ret # NPOS => InRange(storage, ret) /\ At(storage, ret) = op.val


MaxOf(S) == CHOOSE i \in S : \A j \in S : j <= i

MinOf(S) == CHOOSE i \in S : \A j \in S : i <= j

IndicesLE(s, t) == {i \in Positions(s) : At(s, i) <= t}

IndicesGE(s, t) == {i \in Positions(s) : At(s, i) >= t}

IndicesEQ(s, t) == {i \in Positions(s) : At(s, i) = t}

C6_FloorPlusOneIsCeil ==
  (/\ op.name = "find_floor"
   /\ SortedState
   /\ ~Present(storage, op.val)
   /\ ret # NPOS
   /\ find_ceil(Cur, op.val, 0, NPOS) # NPOS)
  => ret + 1 = find_ceil(Cur, op.val, 0, NPOS)

C6_Witness ==
  /\ op.name = "find_floor"
  /\ SortedState
  /\ ~Present(storage, op.val)
  /\ Len(storage) >= 3
  /\ ret # NPOS
  /\ find_ceil(Cur, op.val, 0, NPOS) = ret + 1
  /\ At(storage, ret) < op.val
  /\ At(storage, ret + 1) > op.val

\* C7: when corrupted() is true, find_floor(t) returns not-found only if
\* no element is <= t and find_ceil(t) returns not-found only if no
\* element is >= t.
C7_FloorCeilFallBackWhenDirty ==
  /\ op.name = "find_floor" /\ is_corrupted /\ ret = NPOS
       => IndicesLE(storage, op.val) = {}
  /\ op.name = "find_ceil" /\ is_corrupted /\ ret = NPOS
       => IndicesGE(storage, op.val) = {}


\* the object st is in state Dirty(i) as left by one assignment through
\* operator[](i) on a Sorted container: i is a position and the elements
\* other than the one at i are in order
SingleMutation(st) ==
  /\ st.is_corrupted
  /\ st.last_modified # NPOS
  /\ InRange(st.storage, st.last_modified)
  /\ IsSorted(EraseAt(st.storage, st.last_modified))

\* C8: after one element of a Sorted container has been assigned through
\* operator[](i), repair() leaves the storage equal to the full sort of the
\* mutated storage, and corrupted() false.
C8_RepairEqualsFullSort ==
  op.name = "repair" /\ SingleMutation(prev) =>
    /\ ~ub
    /\ storage = std_sort(prev.storage)
    /\ ~is_corrupted

\* the element moved left by at least two positions, from the last position
C8_Witness ==
  /\ op.name = "repair"
  /\ SingleMutation(prev)
  /\ prev.last_modified = Len(prev.storage) - 1
  /\ prev.last_modified >= 2
  /\ At(prev.storage, prev.last_modified)
       < At(prev.storage, prev.last_modified - 2)
  /\ storage = std_sort(prev.storage)
  /\ storage # prev.storage
  /\ ~is_corrupted

\* C9: in state Dirty(i), i is a valid index and the storage with position
\* i removed is non-decreasing, in every state reached by the public
\* operations without undefined behaviour.
C9_DirtyIndexIsOnlySuspect ==
  ~ub /\ DirtySingle =>
    /\ InRange(storage, last_modified)
    /\ IsSorted(EraseAt(storage, last_modified))

\* C10 as stated: operator[](i) on a Sorted container leaves it Dirty(i),
\* and on a container already Dirty(j) with j # i leaves it Dirty(unknown).
C10_SecondAccessDegrades ==
  op.name = "operator[]" /\ ~ub =>
    /\ ~prev.is_corrupted
         => is_corrupted /\ last_modified = op.pos
    /\ prev.is_corrupted /\ prev.last_modified \notin {NPOS, op.pos}
         => is_corrupted /\ last_modified = NPOS

\* C10 amended: operator[](i) on a Sorted container leaves it Dirty(i); on
\* a container already Dirty(j) with j # i whose auto-repair is suspended it
\* leaves it Dirty(unknown).
C10_SecondAccessDegradesWhenSuspended ==
  op.name = "operator[]" =>
    /\ ~prev.is_corrupted
         => ~ub /\ is_corrupted /\ last_modified = op.pos
    /\ (/\ prev.is_corrupted
        /\ prev.last_modified \notin {NPOS, op.pos}
        /\ prev.flag_suspend_autorepair)
         => ~ub /\ is_corrupted /\ last_modified = NPOS

C10_Witness ==
  /\ op.name = "operator[]"
  /\ prev.is_corrupted
  /\ prev.last_modified \notin {NPOS, op.pos}
  /\ prev.flag_suspend_autorepair
  /\ is_corrupted
  /\ last_modified = NPOS

(***************************************************************************)
(* T &at(size_t pos): _storage.at(pos) and nothing else; no member of the  *)
(* object is touched before the reference is returned.  The position is    *)
(* within the vector here.                                                 *)
(***************************************************************************)
at(st, pos) == st

AtAssign ==
  \E pos \in 0..(Len(storage) - 1), v \in Values :
    Mutate(Call("at", pos, v, <<>>), assign(at(Cur, pos), pos, v))

\* C11: the element accesses - at and operator[] - on an object built by
\* push, with repair() in between.
NextAt ==
  \/ Push
  \/ AtAssign
  \/ Index
  \/ Repair

SpecAt == Init /\ [][NextAt]_vars

\* C11: at(pos) with pos < size on a Sorted container leaves the state
\* Dirty(pos), as operator[](pos) does, so that the next repair() puts the
\* value written through the reference in its place.
C11_AtMarksDirty ==
  op.name = "at" /\ ~prev.is_corrupted =>
    is_corrupted /\ last_modified = op.pos

Count(s, x) == Cardinality({i \in 1..Len(s) : s[i] = x})

\* a and b hold the same values the same number of times
SameBag(a, b) == \A x \in Values : Count(a, x) = Count(b, x)

\* the object st is in state Sorted and its storage is in order
SortedObj(st) == ~st.is_corrupted /\ IsSorted(st.storage)

\* C12: push(t) on a container in state Sorted (storage in order) yields a
\* non-decreasing storage that is the previous one with one t inserted, of
\* size one more, with corrupted() false; when t was already stored the
\* new element is next to an element equal to t.
C12_PushKeepsSorted ==
  op.name = "push" /\ SortedObj(prev) =>
    /\ ~ub
    /\ IsSorted(storage)
    /\ ~is_corrupted
    /\ Len(storage) = Len(prev.storage) + 1
    /\ SameBag(storage, Append(prev.storage, op.val))
    /\ \E p \in 0..Len(prev.storage) :
         /\ storage = InsertAt(prev.storage, p, op.val)
         /\ Present(prev.storage, op.val) =>
              \/ p > 0 /\ At(prev.storage, p - 1) = op.val
              \/ p < Len(prev.storage) /\ At(prev.storage, p) = op.val

\* t is pushed between a smaller and a greater element, next to an equal one
C12_Witness ==
  /\ op.name = "push"
  /\ SortedObj(prev)
  /\ Len(prev.storage) = 2
  /\ At(prev.storage, 0) < op.val
  /\ At(prev.storage, 1) = op.val
  /\ Len(storage) = 3
  /\ At(storage, 1) = op.val
  /\ At(storage, 2) = op.val
  /\ ~is_corrupted

\* C13: merge(seq) from any state leaves the storage equal to the sorted
\* union of the previous contents and seq, of size |seq| more, with
\* corrupted() false.
C13_MergeIsSortedUnion ==
  op.name = "merge" =>
    /\ ~ub
    /\ storage = std_sort(prev.storage \o op.seq)
    /\ IsSorted(storage)
    /\ SameBag(storage, prev.storage \o op.seq)
    /\ Len(storage) = Len(prev.storage) + Len(op.seq)
    /\ ~is_corrupted

\* merge into a suspended, dirty, unordered object of a sequence whose first
\* element goes before the first stored one
C13_Witness ==
  /\ op.name = "merge"
  /\ prev.is_corrupted
  /\ prev.flag_suspend_autorepair
  /\ ~IsSorted(prev.storage)
  /\ Len(op.seq) >= 1
  /\ At(op.seq, 0) < At(prev.storage, 0)
  /\ storage = std_sort(prev.storage \o op.seq)
  /\ ~is_corrupted

\* C14: replace(t) in any reachable state: when some stored element equals
\* t the size is unchanged and the contents are the same values (one t is
\* overwritten with t, none is added); when no stored element equals t the
\* object is left as push(t) leaves it.
C14_ReplaceOverwritesOrPushes ==
  op.name = "replace" /\ ~ub =>
    /\ Present(prev.storage, op.val) =>
         /\ Len(storage) = Len(prev.storage)
         /\ SameBag(storage, prev.storage)
    /\ ~Present(prev.storage, op.val) => Cur = push(prev, op.val)

(***************************************************************************)
(* C15: batched mutation.  The object is built by push, then                *)
(* suspend_autorepair(), then operator[] assignments, push, replace and    *)
(* erase in any number and order, then resume_autorepair(); a new batch    *)
(* may follow.                                                             *)
(***************************************************************************)
NextBatch ==
  \/ ~flag_suspend_autorepair /\ Push
  \/ ~flag_suspend_autorepair /\ Suspend
  \/ flag_suspend_autorepair /\ Index
  \/ flag_suspend_autorepair /\ Push
  \/ flag_suspend_autorepair /\ Replace
  \/ flag_suspend_autorepair /\ Erase
  \/ flag_suspend_autorepair /\ Resume

SpecBatch == Init /\ [][NextBatch]_vars

\* b is a with one position overwritten, one position removed or one
\* element appended: the elements of a that remain keep their places
\* relative to each other
Unreordered(a, b) ==
  \/ b = a
  \/ \E i \in Positions(a), x \in Values : b = SetAt(a, i, x)
  \/ \E i \in Positions(a) : b = EraseAt(a, i)
  \/ \E x \in Values : b = Append(a, x)

\* C15: after suspend_autorepair() on a Sorted container, no operator[]
\* assignment, push, replace or erase reorders the stored elements or
\* repairs, and resume_autorepair() leaves the flag false, corrupted()
\* false and the storage non-decreasing.
C15_BatchThenResumeSorted ==
  /\ ~ub
  /\ op.name = "resume_autorepair" =>
       /\ ~flag_suspend_autorepair
       /\ ~is_corrupted
       /\ IsSorted(storage)
       /\ SameBag(storage, prev.storage)
  /\ (/\ prev.flag_suspend_autorepair
      /\ op.name \in {"operator[]", "push", "replace", "erase"}) =>
       /\ Unreordered(prev.storage, storage)
       /\ is_corrupted
       /\ flag_suspend_autorepair

\* the batch left three elements in decreasing order and resume sorted them
C15_Witness ==
  /\ op.name = "resume_autorepair"
  /\ prev.flag_suspend_autorepair
  /\ Len(prev.storage) = 3
  /\ At(prev.storage, 0) > At(prev.storage, 1)
  /\ At(prev.storage, 1) > At(prev.storage, 2)
  /\ IsSorted(storage)
  /\ ~is_corrupted
  /\ ~flag_suspend_autorepair

\* C16: repair() called in state Sorted changes no member of the object;
\* called in any state it leaves corrupted() false, and a second repair()
\* right after it changes nothing.
C16_RepairIdempotent ==
  op.name = "repair" =>
    /\ ~prev.is_corrupted => ~ub /\ Cur = prev
    /\ ~is_corrupted
    /\ repair(Cur) = Cur

\* a repair that moved the single suspect element
C16_Witness ==
  /\ op.name = "repair"
  /\ prev.is_corrupted
  /\ prev.last_modified # NPOS
  /\ ~ub
  /\ storage # prev.storage
  /\ ~is_corrupted
  /\ repair(Cur) = Cur

\* C17: repair(), sort(), suspend_autorepair(), resume_autorepair() and the
\* repair run by operator[] before it returns the reference leave the size
\* and the multiset of the stored values unchanged, in every reachable
\* state.
C17_OrderOpsKeepContents ==
  /\ op.name \in {"repair", "sort", "suspend_autorepair",
                  "resume_autorepair"} =>
       /\ Len(storage) = Len(prev.storage)
       /\ SameBag(storage, prev.storage)
  /\ op.name = "operator[]" =>
       /\ ~ub
       /\ Len(operator_index(prev, op.pos).storage) = Len(prev.storage)
       /\ SameBag(operator_index(prev, op.pos).storage, prev.storage)

\* C18 as stated: erase(pos) with pos < size, in any state, leaves one
\* element less, and the contents are the previous ones without the value
\* that was at position pos before the call.
C18_EraseRemovesValueAtPos ==
  op.name = "erase" =>
    /\ Len(storage) = Len(prev.storage) - 1
    /\ SameBag(Append(storage, At(prev.storage, op.pos)), prev.storage)

\* C18 amended: erase(pos) with pos < size, in any state, leaves one
\* element less; the value removed is the one at position pos once the
\* object has been repaired, which erase does first when the object is
\* dirty and auto-repair is not suspended; on a Sorted or a suspended
\* object it is the value that was at position pos before the call.
C18_EraseRemovesValueAtPosAfterRepair ==
  op.name = "erase" =>
    /\ ~ub
    /\ Len(storage) = Len(prev.storage) - 1
    /\ SameBag(Append(storage, At(autorepair(prev).storage, op.pos)),
               prev.storage)
    /\ ~prev.is_corrupted \/ prev.flag_suspend_autorepair =>
         storage = EraseAt(prev.storage, op.pos)

\* the repair moved another value to position pos before the erasure
C18_Witness ==
  /\ op.name = "erase"
  /\ prev.is_corrupted
  /\ ~prev.flag_suspend_autorepair
  /\ SingleMutation(prev)
  /\ op.pos = prev.last_modified
  /\ Len(prev.storage) = 3
  /\ ~SameBag(Append(storage, At(prev.storage, op.pos)), prev.storage)
  /\ SameBag(Append(storage, At(std_sort(prev.storage), op.pos)),
             prev.storage)

\* C19: in state Dirty(i), erase(i) leaves corrupted() false and the
\* storage non-decreasing, whether or not auto-repair is suspended.
C19_EraseDirtyElementCleans ==
  (/\ op.name = "erase"
   /\ SingleMutation(prev)
   /\ op.pos = prev.last_modified)
  => ~is_corrupted /\ IsSorted(storage)

(***************************************************************************)
(* The ten const search methods called with explicit arguments on an       *)
(* object in state Sorted, Dirty(i) or Dirty(unknown), the empty object    *)
(* included.  op.seq holds <<start_pos, end_pos>>, op.pos the current      *)
(* position of find_next and find_prev.                                    *)
(***************************************************************************)
RangeStorages == UNION {[1..n -> Values] : n \in 0..MaxRangeLen}

PosArgs == (0..Len(storage)) \cup {NPOS}

InitRange ==
  /\ storage \in RangeStorages
  /\ \/ /\ IsSorted(storage)
        /\ is_corrupted = FALSE
        /\ last_modified = NPOS
        /\ flag_suspend_autorepair = FALSE
     \/ /\ is_corrupted = TRUE
        /\ last_modified \in Positions(storage)
        /\ IsSorted(EraseAt(storage, last_modified))
        /\ flag_suspend_autorepair = FALSE
     \/ /\ is_corrupted = TRUE
        /\ last_modified = NPOS
        /\ flag_suspend_autorepair = TRUE
  /\ ub = FALSE
  /\ op = Call("sorted_vector", NPOS, 0, <<>>)
  /\ prev = Cur
  /\ ret = NPOS

FindIn ==
  \E t \in Values, b \in PosArgs, e \in PosArgs :
    Query(Call("find", NPOS, t, <<b, e>>), find(Cur, t, b, e))

FindFirst ==
  \E t \in Values, b \in PosArgs, e \in PosArgs :
    Query(Call("find_first", NPOS, t, <<b, e>>), find_first(Cur, t, b, e))

FindLast ==
  \E t \in Values, b \in PosArgs, e \in PosArgs :
    Query(Call("find_last", NPOS, t, <<b, e>>), find_last(Cur, t, b, e))

FindNext ==
  \E c \in PosArgs, e \in PosArgs :
    Query(Call("find_next", c, 0, <<0, e>>), find_next(Cur, c, e))

FindPrev ==
  \E c \in PosArgs, b \in PosArgs :
    Query(Call("find_prev", c, 0, <<b, NPOS>>), find_prev(Cur, c, b))

FindLinear ==
  \E t \in Values, b \in PosArgs, e \in PosArgs :
    Query(Call("find_linear", NPOS, t, <<b, e>>), find_linear(Cur, t, b, e))

FindLinearFirst ==
  \E t \in Values, b \in PosArgs, e \in PosArgs :
    Query(Call("find_linear_first", NPOS, t, <<b, e>>),
          find_linear_first(Cur, t, b, e))

FindLinearLast ==
  \E t \in Values, b \in PosArgs, e \in PosArgs :
    Query(Call("find_linear_last", NPOS, t, <<b, e>>),
          find_linear_last(Cur, t, b, e))

FindFloorIn ==
  \E t \in Values, b \in PosArgs, e \in PosArgs :
    Query(Call("find_floor", NPOS, t, <<b, e>>), find_floor(Cur, t, b, e))

FindCeilIn ==
  \E t \in Values, b \in PosArgs, e \in PosArgs :
    Query(Call("find_ceil", NPOS, t, <<b, e>>), find_ceil(Cur, t, b, e))

\* one search per object drawn: the methods are const, a second call would
\* start from the same object
FirstCall == op.name = "sorted_vector"

NextRange ==
  \/ FirstCall /\ FindIn
  \/ FirstCall /\ FindFirst
  \/ FirstCall /\ FindLast
  \/ FirstCall /\ FindNext
  \/ FirstCall /\ FindPrev
  \/ FirstCall /\ FindLinear
  \/ FirstCall /\ FindLinearFirst
  \/ FirstCall /\ FindLinearLast
  \/ FirstCall /\ FindFloorIn
  \/ FirstCall /\ FindCeilIn

SpecRange == InitRange /\ [][NextRange]_vars

SearchNames ==
  {"find", "find_first", "find_last", "find_next", "find_prev",
   "find_linear", "find_linear_first", "find_linear_last",
   "find_floor", "find_ceil"}

\* C20: on an empty container each of the ten search methods returns
\* not-found for every argument, and reads no element of the storage.
C20_EmptySearchNotFound ==
  op.name \in SearchNames /\ Len(storage) = 0 =>
    ~ub /\ ret = NPOS

(***************************************************************************)
(* at(pos) outside the vector, front() and back().  std::vector::at throws *)
(* std::out_of_range, recorded in ret as OutOfRange; front() is            *)
(* operator[](0) and back() is operator[](_storage.size() - 1), the        *)
(* unchecked operator, whose _storage[pos] outside the vector is undefined.*)
(***************************************************************************)
OutOfRange == SizeMod + 1

\* return _storage[pos];
reference(st, pos) ==
  IF st.ub THEN st
  ELSE IF ~InRange(st.storage, pos) THEN Undefined(st)
  ELSE st

front(st) == reference(operator_index(st, 0), 0)

back(st) ==
  reference(operator_index(st, Dec(Len(st.storage))), Dec(Len(st.storage)))

\* A call that leaves by an exception: no member of the object is written.
Throw(c) ==
  /\ ~ub
  /\ op' = c
  /\ prev' = Cur
  /\ ret' = OutOfRange
  /\ UNCHANGED <<storage, last_modified, is_corrupted,
                 flag_suspend_autorepair, ub>>

AtOutOfRange ==
  \E pos \in {Len(storage), Len(storage) + 1, NPOS} :
    Throw(Call("at", pos, 0, <<>>))

Front == Mutate(Call("front", NPOS, 0, <<>>), front(Cur))

Back == Mutate(Call("back", NPOS, 0, <<>>), back(Cur))

NextAccess ==
  \/ Push
  \/ Erase
  \/ Suspend
  \/ Resume
  \/ AtAssign
  \/ AtOutOfRange
  \/ Front
  \/ Back

SpecAccess == Init /\ [][NextAccess]_vars

\* C21: at(pos) with pos >= size, and front() and back() on an empty
\* container, raise OutOfRange, read no element and leave the storage, the
\* dirty state and the suspend flag unchanged.
C21_CheckedAccessRaises ==
  (\/ op.name = "at" /\ op.pos >= Len(prev.storage)
   \/ op.name \in {"front", "back"} /\ Len(prev.storage) = 0)
  => ret = OutOfRange /\ ~ub /\ Cur = prev

(***************************************************************************)
(* C22: push(t); repair(); find(t) on an object in any of the states the   *)
(* public operations lead to: Sorted, Dirty(i) after one assignment        *)
(* through operator[](i), Dirty(unknown) after suspend_autorepair(), the   *)
(* first two with auto-repair active or suspended.                         *)
(***************************************************************************)
RoundStorages == UNION {[1..n -> Values] : n \in 0..MaxRoundLen}

InitRound ==
  /\ storage \in RoundStorages
  /\ flag_suspend_autorepair \in BOOLEAN
  /\ \/ /\ IsSorted(storage)
        /\ is_corrupted = FALSE
        /\ last_modified = NPOS
     \/ /\ is_corrupted = TRUE
        /\ last_modified \in Positions(storage)
        /\ IsSorted(EraseAt(storage, last_modified))
     \/ /\ is_corrupted = TRUE
        /\ last_modified = NPOS
        /\ flag_suspend_autorepair = TRUE
  /\ ub = FALSE
  /\ op = Call("sorted_vector", NPOS, 0, <<>>)
  /\ prev = Cur
  /\ ret = NPOS

\* A call of a non-const method whose effect on the object is r, on an
\* object of any length.
Effect(c, r) ==
  /\ ~ub
  /\ op' = c
  /\ prev' = Cur
  /\ ret' = NPOS
  /\ last_modified' = r.last_modified
  /\ is_corrupted' = r.is_corrupted
  /\ flag_suspend_autorepair' = r.flag_suspend_autorepair
  /\ IF r.ub
     THEN /\ storage' \in AllStorages
          /\ ub' = TRUE
     ELSE /\ storage' = r.storage
          /\ ub' = ub

RoundPush ==
  /\ FirstCall
  /\ \E t \in Values : Effect(Call("push", NPOS, t, <<>>), push(Cur, t))

\* op.val keeps the value pushed
RoundRepair ==
  /\ op.name = "push"
  /\ Effect(Call("repair", NPOS, op.val, <<>>), repair(Cur))

RoundFind ==
  /\ op.name = "repair"
  /\ Query(Call("find", NPOS, op.val, <<>>), find(Cur, op.val, 0, NPOS))

NextRound ==
  \/ RoundPush
  \/ RoundRepair
  \/ RoundFind

SpecRound == InitRound /\ [][NextRound]_vars

\* C22: after push(t) followed by repair(), find(t) returns an index i,
\* not the not-found value, with storage[i] = t.
C22_PushRepairFind ==
  /\ ~ub
  /\ op.name = "find" =>
       /\ ret # NPOS
       /\ InRange(storage, ret)
       /\ At(storage, ret) = op.val

\* the call op was given an explicit range inside the storage
RangeInside ==
  /\ Len(op.seq) = 2
  /\ op.seq[1] <= op.seq[2]
  /\ op.seq[2] < Len(storage)

\* the positions of the inclusive range of the call op that hold op.val
RangeEQ == {i \in op.seq[1]..op.seq[2] : At(storage, i) = op.val}

\* C23: for every storage and every 0 <= start_pos <= end_pos < size,
\* find_linear and find_linear_first return the smallest index of the
\* inclusive range [start_pos, end_pos] holding t, find_linear_last the
\* largest, and not-found only when no position of the range holds t.
C23_LinearSearchInclusive ==
  /\ (op.name \in {"find_linear", "find_linear_first"} /\ RangeInside) =>
       /\ ~ub
       /\ ret = IF RangeEQ = {} THEN NPOS ELSE MinOf(RangeEQ)
  /\ (op.name = "find_linear_last" /\ RangeInside) =>
       /\ ~ub
       /\ ret = IF RangeEQ = {} THEN NPOS ELSE MaxOf(RangeEQ)

\* C24: on a Sorted container and for every range 0 <= lo <= hi < size,
\* find_first(t, lo, hi) returns the smallest index of [lo, hi] holding t
\* and find_last(t, lo, hi) the largest, and each returns not-found exactly
\* when no element of the range equals t.
C24_FirstLastOfRun ==
  /\ (op.name = "find_first" /\ SortedState /\ RangeInside) =>
       /\ ~ub
       /\ ret = IF RangeEQ = {} THEN NPOS ELSE MinOf(RangeEQ)
  /\ (op.name = "find_last" /\ SortedState /\ RangeInside) =>
       /\ ~ub
       /\ ret = IF RangeEQ = {} THEN NPOS ELSE MaxOf(RangeEQ)

\* C25: on a non-empty Sorted container and for arguments inside the
\* storage, find, find_first, find_last, find_floor and find_ceil read the
\* storage only at indices 0 .. size-1.
C25_SearchReadsInsideStorage ==
  (/\ op.name \in {"find", "find_first", "find_last", "find_floor",
                   "find_ceil"}
   /\ SortedState
   /\ Len(storage) > 0
   /\ RangeInside)
  => ~ub

\* the last position of the range of the call op: end_pos, or size - 1
\* when end_pos was left to its default
EndOf == IF op.seq[2] = NPOS THEN Len(storage) - 1 ELSE op.seq[2]

\* C26: in every state, find_next(i, end) returns not-found or an index j
\* with i < j <= end and storage[j] = storage[i], and find_prev(i, start)
\* returns not-found or an index j with start <= j < i and
\* storage[j] = storage[i].
C26_NextPrevOnTheRightSide ==
  /\ (/\ op.name = "find_next"
      /\ op.pos < Len(storage)
      /\ op.pos <= EndOf
      /\ EndOf < Len(storage)) =>
       /\ ~ub
       /\ \/ ret = NPOS
          \/ /\ op.pos < ret
             /\ ret <= EndOf
             /\ At(storage, ret) = At(storage, op.pos)
  /\ (/\ op.name = "find_prev"
      /\ op.pos < Len(storage)
      /\ op.seq[1] <= op.pos) =>
       /\ ~ub
       /\ \/ ret = NPOS
          \/ /\ op.seq[1] <= ret
             /\ ret < op.pos
             /\ At(storage, ret) = At(storage, op.pos)

\* the positions of the inclusive range of the call op whose value is
\* >= op.val, and those whose value is <= op.val
RangeGE == {i \in op.seq[1]..op.seq[2] : At(storage, i) >= op.val}

RangeLE == {i \in op.seq[1]..op.seq[2] : At(storage, i) <= op.val}

\* C27: on a Sorted container and for every 0 <= lo <= hi < size,
\* find_ceil(t, lo, hi) returns not-found or the smallest index of [lo, hi]
\* whose value is >= t, and find_floor(t, lo, hi) returns not-found or the
\* largest index of [lo, hi] whose value is <= t; the index returned is
\* never outside [lo, hi].
C27_SubRangeFloorCeil ==
  /\ (op.name = "find_ceil" /\ SortedState /\ RangeInside) =>
       /\ ~ub
       /\ \/ ret = NPOS
          \/ RangeGE # {} /\ ret = MinOf(RangeGE)
  /\ (op.name = "find_floor" /\ SortedState /\ RangeInside) =>
       /\ ~ub
       /\ \/ ret = NPOS
          \/ RangeLE # {} /\ ret = MaxOf(RangeLE)

\* C28: push(t) on a dirty container whose autorepair is suspended appends t
\* at the last index: every element already stored keeps its position, the
\* size grows by one and the container stays dirty.
C28_PushAppendsWhenSuspendedDirty ==
  (op.name = "push" /\ prev.is_corrupted /\ prev.flag_suspend_autorepair) =>
    /\ ~ub
    /\ storage = Append(prev.storage, op.val)
    /\ Len(storage) = Len(prev.storage) + 1
    /\ is_corrupted

\* a push on a suspended dirty container of a value lower than its last one
C28_Witness ==
  /\ op.name = "push" /\ prev.is_corrupted /\ prev.flag_suspend_autorepair
  /\ ~ub
  /\ Len(prev.storage) >= 2
  /\ op.val < At(prev.storage, Len(prev.storage) - 1)
  /\ At(storage, Len(storage) - 1) = op.val

(***************************************************************************)
(* merge_replace                                                           *)
(***************************************************************************)
\* for (size_t i = 0; i < v.size(); i++) replace(v[i]);
RECURSIVE merge_replace_loop(_, _, _)
merge_replace_loop(st, v, i) ==
  IF st.ub \/ ~(i < Len(v)) THEN st
  ELSE merge_replace_loop(replace(st, At(v, i)), v, i + 1)

\* merge_replace calling push for every incoming element
RECURSIVE merge_replace_push_loop(_, _, _)
merge_replace_push_loop(st, v, i) ==
  IF st.ub \/ ~(i < Len(v)) THEN st
  ELSE merge_replace_push_loop(push(st, At(v, i)), v, i + 1)

merge_replace_push(st, v) == merge_replace_push_loop(st, v, 0)

\* _storage.reserve changes the capacity only
merge_replace(st, v) == merge_replace_loop(st, v, 0)

MergeReplace ==
  \E v \in MergeArgs :
    /\ Len(storage) + Len(v) <= MaxLen
    /\ Mutate(Call("merge_replace", NPOS, 0, v), merge_replace(Cur, v))

NextReplace ==
  \/ Push
  \/ Index
  \/ Suspend
  \/ Resume
  \/ MergeReplace

SpecReplace == Init /\ [][NextReplace]_vars

\* C29: merge_replace(seq) on a Sorted container whose autorepair is not
\* suspended leaves the storage non-decreasing and the container not dirty,
\* with every value of seq present, the count of every value that does not
\* occur in seq unchanged, and every value of seq that was absent before
\* present exactly once, however many times it occurs in seq.
C29_MergeReplace ==
  (op.name = "merge_replace" /\ SortedObj(prev)
     /\ ~prev.flag_suspend_autorepair) =>
    /\ ~ub
    /\ SortedState
    /\ \A i \in Positions(op.seq) : Present(storage, At(op.seq, i))
    /\ \A x \in Values :
         ~Present(op.seq, x) => Count(storage, x) = Count(prev.storage, x)
    /\ \A x \in Values :
         (Present(op.seq, x) /\ ~Present(prev.storage, x))
           => Count(storage, x) = 1

\* a merge_replace of a sequence holding twice a value that was absent, into
\* a Sorted container that is not empty
C29_Witness ==
  /\ op.name = "merge_replace" /\ SortedObj(prev)
  /\ ~prev.flag_suspend_autorepair /\ ~ub
  /\ Len(prev.storage) >= 1
  /\ Len(op.seq) = 2 /\ At(op.seq, 0) = At(op.seq, 1)
  /\ ~Present(prev.storage, At(op.seq, 0))
  /\ Count(storage, At(op.seq, 0)) = 1

(***************************************************************************)
(* sorted_vector_with_key: searches comparing the field CIM_KEYNAME        *)
(***************************************************************************)
MaxKeyLen == 3

\* the stored elements of the model are the values their comparison
\* operators look at, so the field CIM_KEYNAME of an element is that value
CIM_KEYNAME(e) == e

\* while (start_pos != end_pos) of sorted_vector_with_key::find_linear
RECURSIVE with_key_linear_loop(_, _, _, _)
with_key_linear_loop(s, key, start_pos, end_pos) ==
  IF start_pos = end_pos THEN NPOS
  ELSE IF ~InRange(s, start_pos) THEN UB
  ELSE IF CIM_KEYNAME(At(s, start_pos)) = key THEN start_pos
  ELSE with_key_linear_loop(s, key, Inc(start_pos), end_pos)

\* a keyed linear scan that also compares the element at end_pos
RECURSIVE with_key_linear_loop_inclusive(_, _, _, _)
with_key_linear_loop_inclusive(s, key, start_pos, end_pos) ==
  IF ~InRange(s, start_pos) THEN UB
  ELSE IF CIM_KEYNAME(At(s, start_pos)) = key THEN start_pos
  ELSE IF start_pos = end_pos THEN NPOS
  ELSE with_key_linear_loop_inclusive(s, key, Inc(start_pos), end_pos)

with_key_find_linear_inclusive(st, key, start_pos, end_pos) ==
  LET s == st.storage
      e == IF end_pos = NPOS THEN Dec(Len(s)) ELSE end_pos
  IN IF Len(s) = 0 THEN NPOS
     ELSE IF start_pos > e THEN NPOS
     ELSE with_key_linear_loop_inclusive(s, key, start_pos, e)

with_key_find_linear(st, key, start_pos, end_pos) ==
  LET s == st.storage
      e == IF end_pos = NPOS THEN Dec(Len(s)) ELSE end_pos
  IN IF Len(s) = 0 THEN NPOS
     ELSE IF start_pos > e THEN NPOS
     ELSE with_key_linear_loop(s, key, start_pos, e)

\* while (f <= l) of sorted_vector_with_key::find
RECURSIVE with_key_find_loop(_, _, _, _, _)
with_key_find_loop(s, key, f, l, m) ==
  IF ~(f <= l) THEN NPOS
  ELSE IF ~InRange(s, m) THEN UB
  ELSE IF CIM_KEYNAME(At(s, m)) = key THEN m
  ELSE IF ~InRange(s, f) THEN UB
  ELSE IF CIM_KEYNAME(At(s, f)) = key THEN f
  ELSE IF ~InRange(s, l) THEN UB
  ELSE IF CIM_KEYNAME(At(s, l)) = key THEN l
  ELSE IF CIM_KEYNAME(At(s, m)) < key
       THEN with_key_find_loop(s, key, Inc(m), l, Mid(l, Inc(m)))
       ELSE IF m = 0 THEN NPOS
            ELSE with_key_find_loop(s, key, f, Dec(m), Mid(Dec(m), f))

with_key_find(st, key, start_pos, end_pos) ==
  LET s == st.storage
      l == IF end_pos = NPOS THEN Dec(Len(s)) ELSE end_pos
  IN IF Len(s) = 0 THEN NPOS
     ELSE IF ~st.is_corrupted
          THEN with_key_find_loop(s, key, start_pos, l, Mid(start_pos, l))
          ELSE with_key_find_linear(st, key, start_pos, end_pos)

KeyStorages == UNION {[1..n -> Values] : n \in 0..MaxKeyLen}

\* the objects the keyed searches are called on: Sorted, Dirty with one
\* modified position, Dirty with the position unknown
InitKey ==
  /\ storage \in KeyStorages
  /\ \/ /\ IsSorted(storage)
        /\ is_corrupted = FALSE
        /\ last_modified = NPOS
        /\ flag_suspend_autorepair = FALSE
     \/ /\ is_corrupted = TRUE
        /\ last_modified \in Positions(storage)
        /\ IsSorted(EraseAt(storage, last_modified))
        /\ flag_suspend_autorepair = FALSE
     \/ /\ is_corrupted = TRUE
        /\ last_modified = NPOS
        /\ flag_suspend_autorepair = TRUE
  /\ ub = FALSE
  /\ op = Call("sorted_vector_with_key", NPOS, 0, <<>>)
  /\ prev = Cur
  /\ ret = NPOS

KeyFind ==
  \E key \in Values, b \in PosArgs, e \in PosArgs :
    Query(Call("with_key_find", NPOS, key, <<b, e>>),
          with_key_find(Cur, key, b, e))

KeyFindLinear ==
  \E key \in Values, b \in PosArgs, e \in PosArgs :
    Query(Call("with_key_find_linear", NPOS, key, <<b, e>>),
          with_key_find_linear(Cur, key, b, e))

NextKey ==
  \/ op.name = "sorted_vector_with_key" /\ KeyFind
  \/ op.name = "sorted_vector_with_key" /\ KeyFindLinear

SpecKey == InitKey /\ [][NextKey]_vars

\* the result r of a base search and the outcome of the keyed call agree:
\* both read outside the storage, or neither does and the indices are equal
AgreesWith(r) == IF r = UB THEN ub ELSE ~ub /\ ret = r

\* C30: in every state, for every range and every key k, the keyed
\* find(k, lo, hi) returns what the base find(e, lo, hi) returns for an
\* element e whose comparison key is k, the keyed find_linear agrees in the
\* same way with the base find_linear, and a keyed search leaves the
\* storage and the dirty state as they were.
C30_KeyedViewAgrees ==
  /\ op.name = "with_key_find" =>
       /\ \A e \in Values :
            CIM_KEYNAME(e) = op.val
              => AgreesWith(find(prev, e, op.seq[1], op.seq[2]))
       /\ <<storage, last_modified, is_corrupted, flag_suspend_autorepair>>
            = <<prev.storage, prev.last_modified, prev.is_corrupted,
                prev.flag_suspend_autorepair>>
  /\ op.name = "with_key_find_linear" =>
       /\ \A e \in Values :
            CIM_KEYNAME(e) = op.val
              => AgreesWith(find_linear(prev, e, op.seq[1], op.seq[2]))
       /\ <<storage, last_modified, is_corrupted, flag_suspend_autorepair>>
            = <<prev.storage, prev.last_modified, prev.is_corrupted,
                prev.flag_suspend_autorepair>>

\* a keyed find on a dirty container, answered by the keyed linear scan over
\* a range that does not start at 0, that finds the key
C30_Witness ==
  /\ op.name = "with_key_find" /\ ~ub
  /\ is_corrupted
  /\ Len(storage) >= 3
  /\ op.seq[1] >= 1
  /\ ret # NPOS /\ InRange(storage, ret)
  /\ CIM_KEYNAME(At(storage, ret)) = op.val

====
